---- MODULE Spec2Model ----
(***************************************************************************)
(* Model of app.py: the sizing function calculate_microgrid_size and the   *)
(* Streamlit script that calls it.                                         *)
(*                                                                         *)
(* Python evaluates the sizing formulas in IEEE-754 binary64 and rounds    *)
(* with round(x, 1).  Both are modelled bit-exactly.  A binary64 value is  *)
(* a record [s, m, e] standing for s * m * 2^e with 2^52 <= m < 2^53 (or   *)
(* m = 0); m is too wide for TLC's 32-bit integers, so it is kept as a     *)
(* little-endian sequence of 15-bit limbs.  The value round(x, 1) returns  *)
(* is the binary64 nearest to n/10 for an integer n and is modelled by n,  *)
(* the number of tenths.                                                   *)
(***************************************************************************)
EXTENDS Integers, Sequences, FiniteSets, TLC

(***************************************************************************)
(* Natural numbers of arbitrary width (limb sequences, least limb first,   *)
(* no leading zero limb; zero is the empty sequence).                      *)
(***************************************************************************)
LimbBits == 15
Base == 32768

Limb(a, i) == IF i <= Len(a) THEN a[i] ELSE 0

RECURSIVE Norm(_)
Norm(a) ==
  IF a = <<>> THEN a
  ELSE IF a[Len(a)] = 0 THEN Norm(SubSeq(a, 1, Len(a) - 1)) ELSE a

RECURSIVE FromNat(_)
FromNat(n) == IF n = 0 THEN <<>> ELSE <<n % Base>> \o FromNat(n \div Base)

RECURSIVE ToNatFrom(_, _)
ToNatFrom(a, i) == IF i > Len(a) THEN 0 ELSE a[i] + Base * ToNatFrom(a, i + 1)

ToNat(a) == ToNatFrom(a, 1)

RECURSIVE AddFrom(_, _, _, _)
AddFrom(a, b, i, c) ==
  IF i > Len(a) /\ i > Len(b)
  THEN (IF c = 0 THEN <<>> ELSE <<c>>)
  ELSE LET t == Limb(a, i) + Limb(b, i) + c
       IN  <<t % Base>> \o AddFrom(a, b, i + 1, t \div Base)

BigAdd(a, b) == AddFrom(a, b, 1, 0)

\* a - b for a >= b
RECURSIVE SubFrom(_, _, _, _)
SubFrom(a, b, i, c) ==
  IF i > Len(a) THEN <<>>
  ELSE LET t == a[i] - Limb(b, i) - c
       IN  IF t < 0 THEN <<t + Base>> \o SubFrom(a, b, i + 1, 1)
                    ELSE <<t>> \o SubFrom(a, b, i + 1, 0)

BigSub(a, b) == Norm(SubFrom(a, b, 1, 0))

\* -1, 0 or 1 as a < b, a = b, a > b
RECURSIVE CmpFrom(_, _, _)
CmpFrom(a, b, i) ==
  IF i = 0 THEN 0
  ELSE IF a[i] < b[i] THEN -1
  ELSE IF a[i] > b[i] THEN 1
  ELSE CmpFrom(a, b, i - 1)

BigCmp(a, b) ==
  IF Len(a) < Len(b) THEN -1
  ELSE IF Len(a) > Len(b) THEN 1
  ELSE CmpFrom(a, b, Len(a))

\* a * k for 0 <= k < Base
RECURSIVE MulSmallFrom(_, _, _, _)
MulSmallFrom(a, k, i, c) ==
  IF i > Len(a) THEN (IF c = 0 THEN <<>> ELSE <<c>>)
  ELSE LET t == a[i] * k + c
       IN  <<t % Base>> \o MulSmallFrom(a, k, i + 1, t \div Base)

MulSmall(a, k) == IF k = 0 THEN <<>> ELSE MulSmallFrom(a, k, 1, 0)

Zeros(n) == [i \in 1..n |-> 0]

ShiftLimbs(a, n) == IF a = <<>> THEN a ELSE Zeros(n) \o a

RECURSIVE MulFrom(_, _, _)
MulFrom(a, b, j) ==
  IF j > Len(b) THEN <<>>
  ELSE BigAdd(ShiftLimbs(MulSmall(a, b[j]), j - 1), MulFrom(a, b, j + 1))

BigMul(a, b) == MulFrom(a, b, 1)

\* a * 2^k
Shl(a, k) == ShiftLimbs(MulSmall(a, 2 ^ (k % LimbBits)), k \div LimbBits)

\* floor(a / 2^k)
Shr(a, k) ==
  LET n == k \div LimbBits
      r == k % LimbBits
      d == IF n >= Len(a) THEN <<>> ELSE SubSeq(a, n + 1, Len(a))
  IN  Norm([i \in 1..Len(d) |->
              (d[i] \div (2 ^ r)) + (Limb(d, i + 1) % (2 ^ r)) * (2 ^ (LimbBits - r))])

BitLen(a) ==
  IF a = <<>> THEN 0
  ELSE LimbBits * (Len(a) - 1)
         + (CHOOSE k \in 1..LimbBits : 2 ^ (k - 1) <= a[Len(a)] /\ a[Len(a)] < 2 ^ k)

\* Long division by limbs (Knuth's algorithm D).  d is normalised (its top
\* limb is at least Base/2) and r < d * Base^(j+1); the result is
\* <<floor(r / d), r mod d>>.  The digit estimated from the two top limbs of
\* r is at most 2 too large.
RECURSIVE DivLimbs(_, _, _)
DivLimbs(r, d, j) ==
  IF j < 0 THEN <<(<<>>), r>>
  ELSE LET n    == Len(d)
           top  == Limb(r, j + n + 1) * Base + Limb(r, j + n)
           est  == top \div d[n]
           qhat == IF est > Base - 1 THEN Base - 1 ELSE est
           dj   == ShiftLimbs(d, j)
           p    == ShiftLimbs(MulSmall(d, qhat), j)
           q    == IF BigCmp(p, r) <= 0 THEN qhat
                   ELSE IF BigCmp(BigSub(p, dj), r) <= 0 THEN qhat - 1
                   ELSE qhat - 2
           rest == DivLimbs(BigSub(r, ShiftLimbs(MulSmall(d, q), j)), d, j - 1)
       IN  <<rest[1] \o <<q>>, rest[2]>>

\* <<floor(a / d), a mod d>> for d > 0
BigDivMod(a, d) ==
  IF BigCmp(a, d) < 0 THEN <<(<<>>), a>>
  ELSE LET s  == LimbBits - (BitLen(d) - LimbBits * (Len(d) - 1))
           dn == Shl(d, s)
           an == Shl(a, s)
           qr == DivLimbs(an, dn, Len(an) - Len(dn))
       IN  <<Norm(qr[1]), Shr(qr[2], s)>>

\* q / 2^k rounded to an integer, ties to even; sticky says that a nonzero
\* amount below q's last bit was already dropped
RoundShift(q, k, sticky) ==
  IF k = 0 THEN q
  ELSE LET m    == Shr(q, k)
           lost == BigSub(q, Shl(m, k))
           c    == BigCmp(lost, Shl(<<1>>, k - 1))
           up   == c > 0 \/ (c = 0 /\ (sticky \/ Limb(m, 1) % 2 = 1))
       IN  IF up THEN BigAdd(m, <<1>>) ELSE m

(***************************************************************************)
(* IEEE-754 binary64, round to nearest, ties to even.  Subnormals,         *)
(* infinities and NaN are out of reach of the magnitudes modelled.         *)
(***************************************************************************)
MantBits == 53

FZero == [s |-> 1, m |-> <<>>, e |-> 0]

IsZero(x) == x.m = <<>>

\* the binary64 nearest to s * (q + f) * 2^e, where 0 <= f < 1 and sticky
\* says f > 0; q has at least MantBits + 2 bits whenever sticky holds
FRound(s, q, sticky, e) ==
  IF q = <<>> THEN FZero
  ELSE LET n == BitLen(q)
       IN  IF n <= MantBits
           THEN [s |-> s, m |-> Shl(q, MantBits - n), e |-> e - (MantBits - n)]
           ELSE LET m == RoundShift(q, n - MantBits, sticky)
                IN  IF BitLen(m) > MantBits
                    THEN [s |-> s, m |-> Shr(m, 1), e |-> e + (n - MantBits) + 1]
                    ELSE [s |-> s, m |-> m, e |-> e + (n - MantBits)]

\* the binary64 nearest to s * num / den (num, den limb sequences, den > 0)
FFromRatio(s, num, den) ==
  IF num = <<>> THEN FZero
  ELSE LET k  == MantBits + 2 + BitLen(den) - BitLen(num)
           a  == IF k > 0 THEN Shl(num, k) ELSE num
           d  == IF k < 0 THEN Shl(den, -k) ELSE den
           qr == BigDivMod(a, d)
       IN  FRound(s, qr[1], qr[2] # <<>>, -k)

Abs(n) == IF n < 0 THEN -n ELSE n
Sgn(n) == IF n < 0 THEN -1 ELSE 1

\* float(n) for a Python int n
FFromInt(n) == FRound(Sgn(n), FromNat(Abs(n)), FALSE, 0)

\* x * y
FMul(x, y) == FRound(x.s * y.s, BigMul(x.m, y.m), FALSE, x.e + y.e)

\* x / y for y # 0
FDiv(x, y) ==
  LET r == FFromRatio(x.s * y.s, x.m, y.m)
  IN  IF IsZero(r) THEN r ELSE [r EXCEPT !.e = @ + x.e - y.e]

\* x + y for x, y of the same sign
FAdd(x, y) ==
  IF IsZero(x) THEN y
  ELSE IF IsZero(y) THEN x
  ELSE LET e == IF x.e < y.e THEN x.e ELSE y.e
       IN  FRound(x.s, BigAdd(Shl(x.m, x.e - e), Shl(y.m, y.e - e)), FALSE, e)

\* RoundTenths with the digits after the first decimal dropped
RoundTenths_Truncating(x) ==
  IF IsZero(x) THEN 0
  ELSE LET t == MulSmall(x.m, 10)
       IN  x.s * ToNat(IF x.e >= 0 THEN Shl(t, x.e) ELSE Shr(t, -x.e))

\* x * 10 rounded to an integer, ties on the exact binary value of x going to
\* the even integer: the digits float.__round__ obtains for round(x, 1)
RoundTenths(x) ==
  IF IsZero(x) THEN 0
  ELSE LET t == MulSmall(x.m, 10)
       IN  x.s * ToNat(IF x.e >= 0 THEN Shl(t, x.e) ELSE RoundShift(t, -x.e, FALSE))

\* the binary64 nearest to the decimal n/10
FromTenths(n) == FFromRatio(Sgn(n), FromNat(Abs(n)), FromNat(10))

\* PyRound1 with the rounding left out
PyRound1_Unrounded(x) == x

\* round(x, 1): the decimal digits of x rounded to one place, read back as a
\* binary64
PyRound1(x) == FromTenths(RoundTenths(x))

(***************************************************************************)
(* Python numbers.  A number is written <<n, d>>: an int n is <<n, 1>>, a  *)
(* float is the decimal n/d (d a power of ten) of the program text or of a *)
(* widget's value and stands for the binary64 nearest to n/d.              *)
(***************************************************************************)
PyFloat(v) ==
  IF v[2] = 1 THEN FFromInt(v[1])
  ELSE FFromRatio(Sgn(v[1]), FromNat(Abs(v[1])), FromNat(v[2]))

\* a <= b for numbers a, b
NumLE(a, b) == a[1] * b[2] <= b[1] * a[2]

\* Python's None
None == [none |-> TRUE]

(***************************************************************************)
(* calculate_microgrid_size                                                *)
(***************************************************************************)
\* adjusted with + written for *
adjusted_Plus(usage, system_losses) ==
  FAdd(PyFloat(usage), FAdd(FFromInt(1), PyFloat(system_losses)))

\* lines 15-16: usage * (1 + system_losses)
adjusted(usage, system_losses) ==
  FMul(PyFloat(usage), FAdd(FFromInt(1), PyFloat(system_losses)))

\* required_battery_capacity with the scaling by backup_hours / 24 left out
required_battery_capacity_FullDay(adjusted_daily_usage, backup_hours, battery_depth_of_discharge, safety_factor) ==
  FMul(FDiv(adjusted_daily_usage, PyFloat(battery_depth_of_discharge)),
       PyFloat(safety_factor))

\* lines 19-23
required_battery_capacity(adjusted_daily_usage, backup_hours, battery_depth_of_discharge, safety_factor) ==
  FMul(FDiv(FDiv(FMul(adjusted_daily_usage, PyFloat(backup_hours)), FFromInt(24)),
            PyFloat(battery_depth_of_discharge)),
       PyFloat(safety_factor))

\* required_solar_capacity with * written for /
required_solar_capacity_Times(adjusted_daily_usage, solar_peak_hours, safety_factor) ==
  FMul(FMul(adjusted_daily_usage, PyFloat(solar_peak_hours)), PyFloat(safety_factor))

\* lines 26-29
required_solar_capacity(adjusted_daily_usage, solar_peak_hours, safety_factor) ==
  FMul(FDiv(adjusted_daily_usage, PyFloat(solar_peak_hours)), PyFloat(safety_factor))

\* line 32
required_inverter_size(adjusted_peak_demand, safety_factor) ==
  FMul(adjusted_peak_demand, PyFloat(safety_factor))

calculate_microgrid_size(daily_kwh_usage, peak_kw_demand, backup_hours, solar_peak_hours, battery_depth_of_discharge, system_losses, safety_factor) ==
  LET adjusted_daily_usage == adjusted(daily_kwh_usage, system_losses)
      adjusted_peak_demand == adjusted(peak_kw_demand, system_losses)
  IN  IF solar_peak_hours[1] = 0 \/ battery_depth_of_discharge[1] = 0
      THEN [error |-> "ZeroDivisionError"]
      ELSE [battery_capacity_kwh |->
              PyRound1(required_battery_capacity(adjusted_daily_usage, backup_hours,
                                                 battery_depth_of_discharge,
                                                 safety_factor)),
            solar_capacity_kw |->
              PyRound1(required_solar_capacity(adjusted_daily_usage,
                                               solar_peak_hours, safety_factor)),
            inverter_size_kw |->
              PyRound1(required_inverter_size(adjusted_peak_demand, safety_factor))]

\* the call with its keyword arguments collected in a record
Call(a) ==
  calculate_microgrid_size(a.daily_kwh_usage, a.peak_kw_demand, a.backup_hours,
                           a.solar_peak_hours, a.battery_depth_of_discharge,
                           a.system_losses, a.safety_factor)

(***************************************************************************)
(* The script's data and widgets                                           *)
(***************************************************************************)
\* EXAMPLE_PROFILES with the rows of "Restaurant" and "Small Office" exchanged
EXAMPLE_PROFILES_Exchanged ==
  [b \in {"Small Retail Store", "Restaurant", "Small Office", "Custom"} |->
     CASE b = "Small Retail Store" -> [daily_kwh |-> <<50, 1>>,  peak_kw |-> <<8, 1>>]
       [] b = "Restaurant"         -> [daily_kwh |-> <<75, 1>>,  peak_kw |-> <<12, 1>>]
       [] b = "Small Office"       -> [daily_kwh |-> <<200, 1>>, peak_kw |-> <<25, 1>>]
       [] b = "Custom"             -> [daily_kwh |-> <<100, 1>>, peak_kw |-> <<15, 1>>]]

EXAMPLE_PROFILES ==
  [b \in {"Small Retail Store", "Restaurant", "Small Office", "Custom"} |->
     CASE b = "Small Retail Store" -> [daily_kwh |-> <<50, 1>>,  peak_kw |-> <<8, 1>>]
       [] b = "Restaurant"         -> [daily_kwh |-> <<200, 1>>, peak_kw |-> <<25, 1>>]
       [] b = "Small Office"       -> [daily_kwh |-> <<75, 1>>,  peak_kw |-> <<12, 1>>]
       [] b = "Custom"             -> [daily_kwh |-> <<100, 1>>, peak_kw |-> <<15, 1>>]]

\* st.slider(label, min_value, max_value, value, step)
BackupHoursSlider    == [min |-> <<12, 1>>,  max |-> <<72, 1>>,  value |-> <<24, 1>>,   step |-> <<1, 1>>]
SolarPeakHoursSlider == [min |-> <<30, 10>>, max |-> <<70, 10>>, value |-> <<50, 10>>,  step |-> <<5, 10>>]
BatteryDodSlider     == [min |-> <<5, 10>>,  max |-> <<9, 10>>,  value |-> <<8, 10>>,   step |-> <<1, 10>>]
SystemLossesSlider   == [min |-> <<10, 100>>, max |-> <<30, 100>>, value |-> <<15, 100>>, step |-> <<5, 100>>]
SafetyFactorSlider   == [min |-> <<11, 10>>, max |-> <<15, 10>>, value |-> <<12, 10>>,  step |-> <<1, 10>>]

\* DailyKwhInput without a lower limit above zero
DailyKwhInput_FromZero == [min |-> <<0, 10>>, value |-> <<1000, 10>>]

\* st.number_input(label, min_value, value)
DailyKwhInput == [min |-> <<10, 10>>, value |-> <<1000, 10>>]
PeakKwInput   == [min |-> <<5, 10>>,  value |-> <<150, 10>>]

\* every position a slider can be set to: min, min + step, ..., max
SliderPositions(w) ==
  LET d == w.min[2]
  IN  {<<n, d>> : n \in {k \in w.min[1]..w.max[1] : (k - w.min[1]) % w.step[1] = 0}}

(***************************************************************************)
(* State.  A run of the script is one step: Streamlit reruns the script    *)
(* from the top after each interaction, with the widgets' values kept.     *)
(***************************************************************************)
VARIABLES
  backup_hours,      \* the five sidebar sliders
  solar_peak_hours,
  battery_dod,
  system_losses,
  safety_factor,
  business_type,     \* the selectbox
  daily_kwh_input,   \* the two number inputs shown for "Custom"
  peak_kw_input,
  button,            \* what st.button returned in the latest run
  calls,             \* invocations of calculate_microgrid_size in the latest step
  args,              \* the arguments of the latest invocation, or None
  results,           \* what it returned, or None (nothing displayed)
  prev               \* the invocation before it, for two direct calls in a row

widgets == <<backup_hours, solar_peak_hours, battery_dod, system_losses,
             safety_factor, business_type, daily_kwh_input, peak_kw_input>>

vars == <<backup_hours, solar_peak_hours, battery_dod, system_losses,
          safety_factor, business_type, daily_kwh_input, peak_kw_input,
          button, calls, args, results, prev>>

\* the script's daily_kwh and peak_kw (lines 69-83)
daily_kwh ==
  IF business_type = "Custom" THEN daily_kwh_input
  ELSE EXAMPLE_PROFILES[business_type].daily_kwh

peak_kw ==
  IF business_type = "Custom" THEN peak_kw_input
  ELSE EXAMPLE_PROFILES[business_type].peak_kw

\* the keyword arguments of the call at lines 87-95
ScriptArgs ==
  [daily_kwh_usage            |-> daily_kwh,
   peak_kw_demand             |-> peak_kw,
   backup_hours               |-> backup_hours,
   solar_peak_hours           |-> solar_peak_hours,
   battery_depth_of_discharge |-> battery_dod,
   system_losses              |-> system_losses,
   safety_factor              |-> safety_factor]

\* the widgets after the first run of the script
WidgetDefaults ==
  /\ backup_hours = BackupHoursSlider.value
  /\ solar_peak_hours = SolarPeakHoursSlider.value
  /\ battery_dod = BatteryDodSlider.value
  /\ system_losses = SystemLossesSlider.value
  /\ safety_factor = SafetyFactorSlider.value
  /\ business_type = "Small Retail Store"
  /\ daily_kwh_input = DailyKwhInput.value
  /\ peak_kw_input = PeakKwInput.value

Init ==
  /\ WidgetDefaults
  /\ button = FALSE
  /\ calls = 0
  /\ args = None
  /\ results = None
  /\ prev = None

(***************************************************************************)
(* The interactions.  The positions the user moves a slider to and the     *)
(* numbers the user types are samples.                                     *)
(***************************************************************************)
Sampled(w) == {v \in SliderPositions(w) : v \in {w.min, w.value, w.max}}

TypedNumbers == {<<0, 10>>, <<5, 10>>, <<10, 10>>}

\* RerunWithoutButton with the previous run's output left on the page
RerunWithoutButton_Stale ==
  /\ button' = FALSE
  /\ calls' = 0
  /\ UNCHANGED <<args, results, prev>>

\* a rerun in which st.button returns False: lines 86-138 are skipped
RerunWithoutButton ==
  /\ button' = FALSE
  /\ calls' = 0
  /\ args' = None
  /\ results' = None
  /\ UNCHANGED prev

SetBackupHours(v) ==
  /\ v # backup_hours
  /\ backup_hours' = v
  /\ UNCHANGED <<solar_peak_hours, battery_dod, system_losses, safety_factor,
                 business_type, daily_kwh_input, peak_kw_input>>
  /\ RerunWithoutButton

SetSolarPeakHours(v) ==
  /\ v # solar_peak_hours
  /\ solar_peak_hours' = v
  /\ UNCHANGED <<backup_hours, battery_dod, system_losses, safety_factor,
                 business_type, daily_kwh_input, peak_kw_input>>
  /\ RerunWithoutButton

SetBatteryDod(v) ==
  /\ v # battery_dod
  /\ battery_dod' = v
  /\ UNCHANGED <<backup_hours, solar_peak_hours, system_losses, safety_factor,
                 business_type, daily_kwh_input, peak_kw_input>>
  /\ RerunWithoutButton

SetSystemLosses(v) ==
  /\ v # system_losses
  /\ system_losses' = v
  /\ UNCHANGED <<backup_hours, solar_peak_hours, battery_dod, safety_factor,
                 business_type, daily_kwh_input, peak_kw_input>>
  /\ RerunWithoutButton

SetSafetyFactor(v) ==
  /\ v # safety_factor
  /\ safety_factor' = v
  /\ UNCHANGED <<backup_hours, solar_peak_hours, battery_dod, system_losses,
                 business_type, daily_kwh_input, peak_kw_input>>
  /\ RerunWithoutButton

\* the number inputs are created only in a run with "Custom" selected; a
\* widget that a run does not create loses its value and starts again from
\* its default
SelectBusinessType(b) ==
  /\ b \in DOMAIN EXAMPLE_PROFILES
  /\ b # business_type
  /\ business_type' = b
  /\ daily_kwh_input' = DailyKwhInput.value
  /\ peak_kw_input' = PeakKwInput.value
  /\ UNCHANGED <<backup_hours, solar_peak_hours, battery_dod, system_losses,
                 safety_factor>>
  /\ RerunWithoutButton

\* a number input accepts no value below its min_value
EnterDailyKwh(v) ==
  /\ business_type = "Custom"
  /\ NumLE(DailyKwhInput.min, v)
  /\ v # daily_kwh_input
  /\ daily_kwh_input' = v
  /\ UNCHANGED <<backup_hours, solar_peak_hours, battery_dod, system_losses,
                 safety_factor, business_type, peak_kw_input>>
  /\ RerunWithoutButton

EnterPeakKw(v) ==
  /\ business_type = "Custom"
  /\ NumLE(PeakKwInput.min, v)
  /\ v # peak_kw_input
  /\ peak_kw_input' = v
  /\ UNCHANGED <<backup_hours, solar_peak_hours, battery_dod, system_losses,
                 safety_factor, business_type, daily_kwh_input>>
  /\ RerunWithoutButton

\* the rerun in which st.button returns True (lines 86-117)
PressCalculate ==
  /\ button' = TRUE
  /\ calls' = 1
  /\ args' = ScriptArgs
  /\ results' = Call(ScriptArgs)
  /\ UNCHANGED widgets
  /\ UNCHANGED prev

Next ==
  \/ \E v \in Sampled(BackupHoursSlider) : SetBackupHours(v)
  \/ \E v \in Sampled(SolarPeakHoursSlider) : SetSolarPeakHours(v)
  \/ \E v \in Sampled(BatteryDodSlider) : SetBatteryDod(v)
  \/ \E v \in Sampled(SystemLossesSlider) : SetSystemLosses(v)
  \/ \E v \in Sampled(SafetyFactorSlider) : SetSafetyFactor(v)
  \/ \E b \in DOMAIN EXAMPLE_PROFILES : SelectBusinessType(b)
  \/ \E v \in TypedNumbers : EnterDailyKwh(v)
  \/ \E v \in TypedNumbers : EnterPeakKw(v)
  \/ PressCalculate

Spec == Init /\ [][Next]_vars

(***************************************************************************)
(* Direct calls of calculate_microgrid_size: one call on arguments drawn   *)
(* from a sample of the function's inputs, usage and demand that are not   *)
(* positive included.                                                      *)
(***************************************************************************)
MaxUsageK == 2

DailyKwhValues == {<<50 * k, 1>> : k \in -1..MaxUsageK}

PeakKwValues == {<<-8, 1>>, <<0, 1>>, <<15, 1>>, <<25, 1>>}

ArgsOver(U, P) ==
  [daily_kwh_usage            : U,
   peak_kw_demand             : P,
   backup_hours               : Sampled(BackupHoursSlider),
   solar_peak_hours           : Sampled(SolarPeakHoursSlider),
   battery_depth_of_discharge : Sampled(BatteryDodSlider),
   system_losses              : Sampled(SystemLossesSlider),
   safety_factor              : Sampled(SafetyFactorSlider)]

InitCall ==
  /\ WidgetDefaults
  /\ button = FALSE
  /\ calls = 0
  /\ args \in ArgsOver(DailyKwhValues, PeakKwValues)
  /\ results = None
  /\ prev = None

Calculate ==
  /\ args # None
  /\ results = None
  /\ results' = Call(args)
  /\ calls' = 1
  /\ UNCHANGED <<widgets, button, args, prev>>

NextCall == Calculate

SpecCall == InitCall /\ [][NextCall]_vars

(***************************************************************************)
(* Two direct calls in a row whose arguments differ in one parameter.      *)
(***************************************************************************)
MaxDoublings == 2

PairDailyKwhValues == {<<50 * (2 ^ k), 1>> : k \in 0..MaxDoublings}

PairPeakKwValues == {<<8, 1>>, <<25, 1>>}

PairSampled(w) == {v \in SliderPositions(w) : v \in {w.value, w.max}}

Params == {"daily_kwh_usage", "peak_kw_demand", "backup_hours",
           "solar_peak_hours", "battery_depth_of_discharge", "system_losses",
           "safety_factor"}

PairValues(k) ==
  CASE k = "daily_kwh_usage"            -> PairDailyKwhValues
    [] k = "peak_kw_demand"             -> PairPeakKwValues
    [] k = "backup_hours"               -> Sampled(BackupHoursSlider)
    [] k = "solar_peak_hours"           -> PairSampled(SolarPeakHoursSlider)
    [] k = "battery_depth_of_discharge" -> PairSampled(BatteryDodSlider)
    [] k = "system_losses"              -> PairSampled(SystemLossesSlider)
    [] k = "safety_factor"              -> PairSampled(SafetyFactorSlider)

InitPair ==
  /\ WidgetDefaults
  /\ button = FALSE
  /\ calls = 0
  /\ args \in [daily_kwh_usage            : PairValues("daily_kwh_usage"),
              peak_kw_demand             : PairValues("peak_kw_demand"),
              backup_hours               : PairValues("backup_hours"),
              solar_peak_hours           : PairValues("solar_peak_hours"),
              battery_depth_of_discharge : PairValues("battery_depth_of_discharge"),
              system_losses              : PairValues("system_losses"),
              safety_factor              : PairValues("safety_factor")]
  /\ results = None
  /\ prev = None

\* the caller keeps the first call's arguments and result and changes one
\* argument for the second call
Revise(k, v) ==
  /\ results # None
  /\ prev = None
  /\ v # args[k]
  /\ prev' = [args |-> args, results |-> results]
  /\ args' = [args EXCEPT ![k] = v]
  /\ results' = None
  /\ calls' = 0
  /\ UNCHANGED <<widgets, button>>

NextPair ==
  \/ Calculate
  \/ \E k \in Params : \E v \in PairValues(k) : Revise(k, v)

SpecPair == InitPair /\ [][NextPair]_vars

(***************************************************************************)
(* The formulas of the specification in exact arithmetic: round1 of a      *)
(* product of naturals over a product of naturals, ties to the even digit. *)
(***************************************************************************)
RECURSIVE BigProduct(_, _)
BigProduct(ns, i) ==
  IF i > Len(ns) THEN <<1>> ELSE BigMul(FromNat(ns[i]), BigProduct(ns, i + 1))

\* nums / dens rounded to one decimal place, as a number of tenths
ExactRound1(nums, dens) ==
  LET d  == BigProduct(dens, 1)
      qr == BigDivMod(MulSmall(BigProduct(nums, 1), 10), d)
      c  == BigCmp(BigAdd(qr[2], qr[2]), d)
      up == c > 0 \/ (c = 0 /\ Limb(qr[1], 1) % 2 = 1)
  IN  ToNat(qr[1]) + (IF up THEN 1 ELSE 0)

\* 1 + l as a fraction
OnePlus(l) == <<l[2] + l[1], l[2]>>

ExactBattery(a) ==
  ExactRound1(<<a.daily_kwh_usage[1], OnePlus(a.system_losses)[1], a.backup_hours[1],
                a.battery_depth_of_discharge[2], a.safety_factor[1]>>,
              <<a.daily_kwh_usage[2], OnePlus(a.system_losses)[2], a.backup_hours[2],
                24, a.battery_depth_of_discharge[1], a.safety_factor[2]>>)

ExactSolar(a) ==
  ExactRound1(<<a.daily_kwh_usage[1], OnePlus(a.system_losses)[1],
                a.solar_peak_hours[2], a.safety_factor[1]>>,
              <<a.daily_kwh_usage[2], OnePlus(a.system_losses)[2],
                a.solar_peak_hours[1], a.safety_factor[2]>>)

ExactInverter(a) ==
  ExactRound1(<<a.peak_kw_demand[1], OnePlus(a.system_losses)[1], a.safety_factor[1]>>,
              <<a.peak_kw_demand[2], OnePlus(a.system_losses)[2], a.safety_factor[2]>>)

Positive(v) == v[1] > 0

\* the preconditions of section 4.1
InDomain(v, w) == NumLE(w.min, v) /\ NumLE(v, w.max)

ValidArgs(a) ==
  /\ Positive(a.daily_kwh_usage)
  /\ Positive(a.peak_kw_demand)
  /\ InDomain(a.backup_hours, BackupHoursSlider)
  /\ InDomain(a.solar_peak_hours, SolarPeakHoursSlider)
  /\ InDomain(a.battery_depth_of_discharge, BatteryDodSlider)
  /\ InDomain(a.system_losses, SystemLossesSlider)
  /\ InDomain(a.safety_factor, SafetyFactorSlider)

Returned == results # None

DefaultConfig(a) ==
  /\ a.backup_hours = BackupHoursSlider.value
  /\ a.solar_peak_hours = SolarPeakHoursSlider.value
  /\ a.battery_depth_of_discharge = BatteryDodSlider.value
  /\ a.system_losses = SystemLossesSlider.value
  /\ a.safety_factor = SafetyFactorSlider.value

\* a result dict from its three values in tenths
Sizes(b, s, i) ==
  [battery_capacity_kwh |-> FromTenths(b),
   solar_capacity_kw    |-> FromTenths(s),
   inverter_size_kw     |-> FromTenths(i)]

\* C1: for valid arguments the function returns exactly round1 of the three
\* formulas, evaluated in exact arithmetic with ties going to the even digit
C1_ExactFormulas ==
  (Returned /\ ValidArgs(args)) =>
    results = Sizes(ExactBattery(args), ExactSolar(args), ExactInverter(args))

\* C2: a call with non-positive usage or non-positive peak demand ends in
\* InvalidInput and returns no result record
C2_InvalidInputRaised ==
  (Returned /\ (~Positive(args.daily_kwh_usage) \/ ~Positive(args.peak_kw_demand))) =>
    results = [error |-> "InvalidInput"]

\* C3: usage 100 and demand 15 with the default configuration give
\* 172.5 kWh, 27.6 kW and 20.7 kW
C3_DefaultsScenario ==
  (Returned /\ args.daily_kwh_usage = <<100, 1>> /\ args.peak_kw_demand = <<15, 1>>
            /\ DefaultConfig(args)) =>
    results = Sizes(1725, 276, 207)

C3_Witness ==
  /\ Returned
  /\ args.daily_kwh_usage = <<100, 1>>
  /\ args.peak_kw_demand = <<15, 1>>
  /\ DefaultConfig(args)
  /\ results = Sizes(1725, 276, 207)

\* the value is a binary64 that round(x, 1) produces from a non-negative x:
\* the one nearest to n/10 for a natural n
OneDecimalNonNegative(x) ==
  /\ RoundTenths(x) >= 0
  /\ x = FromTenths(RoundTenths(x))

Differing == {k \in Params : args[k] # prev.args[k]}

\* the three displayed values, in tenths
Tenths(r) ==
  [k \in {"battery_capacity_kwh", "solar_capacity_kw", "inverter_size_kw"} |->
     RoundTenths(r[k])]

NoLarger(r1, r2) == \A k \in DOMAIN Tenths(r1) : Tenths(r1)[k] <= Tenths(r2)[k]

Increasing == {"daily_kwh_usage", "peak_kw_demand", "backup_hours",
               "system_losses", "safety_factor"}

\* C5: of two valid calls that differ in one parameter, the one with the
\* larger usage, demand, backup hours, losses or safety factor, or with the
\* smaller solar peak hours or depth of discharge, has no smaller result
C5_Monotone ==
  (prev # None /\ Returned /\ ValidArgs(args) /\ ValidArgs(prev.args)) =>
    \A k \in Differing :
      IF (k \in Increasing) = NumLE(prev.args[k], args[k])
      THEN NoLarger(prev.results, results)
      ELSE NoLarger(results, prev.results)

C5_Witness ==
  /\ prev # None
  /\ Returned
  /\ Differing = {"battery_depth_of_discharge"}
  /\ NumLE(prev.args.battery_depth_of_discharge, args.battery_depth_of_discharge)
  /\ Tenths(results).battery_capacity_kwh < Tenths(prev.results).battery_capacity_kwh
  /\ Tenths(results).solar_capacity_kw = Tenths(prev.results).solar_capacity_kw

Doubled ==
  /\ prev # None
  /\ Returned
  /\ Differing = {"daily_kwh_usage"}
  /\ args.daily_kwh_usage[1] * prev.args.daily_kwh_usage[2]
       = 2 * prev.args.daily_kwh_usage[1] * args.daily_kwh_usage[2]

\* C6: doubling the usage doubles battery and solar capacity to within 0.1
\* and leaves the inverter size as it was
C6_DoublingUsage ==
  (Doubled /\ ValidArgs(prev.args)) =>
    /\ Abs(Tenths(results).battery_capacity_kwh
             - 2 * Tenths(prev.results).battery_capacity_kwh) <= 1
    /\ Abs(Tenths(results).solar_capacity_kw
             - 2 * Tenths(prev.results).solar_capacity_kw) <= 1
    /\ results.inverter_size_kw = prev.results.inverter_size_kw

C6_Witness ==
  /\ Doubled
  /\ ValidArgs(prev.args)
  /\ Tenths(results).solar_capacity_kw # 2 * Tenths(prev.results).solar_capacity_kw

\* C7: with the default configuration the battery capacity for 72 backup
\* hours is 6 times the one for 12 backup hours, up to the rounding of each
\* (0.05 on the first, 6 * 0.05 on the second: 0.3 in tenths)
C7_BackupRatio ==
  (/\ prev # None
   /\ Returned
   /\ Differing = {"backup_hours"}
   /\ prev.args.backup_hours = BackupHoursSlider.min
   /\ args.backup_hours = BackupHoursSlider.max
   /\ DefaultConfig([args EXCEPT !.backup_hours = BackupHoursSlider.value])) =>
    Abs(Tenths(results).battery_capacity_kwh
          - 6 * Tenths(prev.results).battery_capacity_kwh) <= 3

C7_Witness ==
  /\ prev # None
  /\ Returned
  /\ Differing = {"backup_hours"}
  /\ prev.args.backup_hours = <<12, 1>>
  /\ args.backup_hours = <<72, 1>>
  /\ DefaultConfig([args EXCEPT !.backup_hours = BackupHoursSlider.value])
  /\ args.daily_kwh_usage = <<100, 1>>
  /\ Tenths(prev.results).battery_capacity_kwh = 862
  /\ Tenths(results).battery_capacity_kwh = 5175

(***************************************************************************)
(* The script                                                              *)
(***************************************************************************)
SlidersAtDefault == DefaultConfig(ScriptArgs)

\* C4: "Restaurant" with the sliders at their defaults and the button
\* pressed passes usage 200 and demand 25 and displays 345.0, 55.2 and 34.5
C4_RestaurantPreset ==
  (button /\ business_type = "Restaurant" /\ SlidersAtDefault) =>
    /\ args.daily_kwh_usage = <<200, 1>>
    /\ args.peak_kw_demand = <<25, 1>>
    /\ DefaultConfig(args)
    /\ results = Sizes(3450, 552, 345)

C4_Witness ==
  /\ button
  /\ business_type = "Restaurant"
  /\ SlidersAtDefault
  /\ results = Sizes(3450, 552, 345)

\* C9: a run calls the function once if the button started it and not at
\* all otherwise; changing a widget never calls it nor leaves a result on
\* display; the result displayed is the one computed from the widgets'
\* values at the press
C9_OneCallPerPress ==
  [][/\ (widgets' # widgets) => (calls' = 0 /\ args' = None /\ results' = None)
     /\ button' => (calls' = 1 /\ args' = ScriptArgs' /\ results' = Call(ScriptArgs'))
     /\ ~button' => (calls' = 0 /\ args' = None /\ results' = None)]_vars

C9_Witness ==
  /\ button
  /\ calls = 1
  /\ business_type = "Custom"
  /\ daily_kwh_input # DailyKwhInput.value
  /\ ~SlidersAtDefault
  /\ args = ScriptArgs
  /\ results # None

\* C10: every call made by the script has usage >= 1, demand >= 0.5,
\* backup hours in [12, 72], solar peak hours in [3.0, 7.0], depth of
\* discharge in [0.5, 0.9], losses in [0.1, 0.3] and safety factor in
\* [1.1, 1.5], and no call divides by zero
C10_ScriptArgsValid ==
  (args # None) =>
    /\ NumLE(<<1, 1>>, args.daily_kwh_usage)
    /\ NumLE(<<5, 10>>, args.peak_kw_demand)
    /\ NumLE(<<12, 1>>, args.backup_hours) /\ NumLE(args.backup_hours, <<72, 1>>)
    /\ NumLE(<<30, 10>>, args.solar_peak_hours) /\ NumLE(args.solar_peak_hours, <<70, 10>>)
    /\ NumLE(<<5, 10>>, args.battery_depth_of_discharge)
    /\ NumLE(args.battery_depth_of_discharge, <<9, 10>>)
    /\ NumLE(<<1, 10>>, args.system_losses) /\ NumLE(args.system_losses, <<3, 10>>)
    /\ NumLE(<<11, 10>>, args.safety_factor) /\ NumLE(args.safety_factor, <<15, 10>>)
    /\ "error" \notin DOMAIN results

C10_Witness ==
  /\ args # None
  /\ args.daily_kwh_usage = <<10, 10>>
  /\ args.peak_kw_demand = <<5, 10>>
  /\ args.solar_peak_hours = <<30, 10>>
  /\ args.battery_depth_of_discharge = <<5, 10>>
  /\ "error" \notin DOMAIN results

====
